---- MODULE Spec2Model ----
(***************************************************************************)
(* Model of cn_stock_holidays/zipline/exchange_calendar_shsz.py:           *)
(* SHSZExchangeCalendar, the Shanghai/Shenzhen exchange calendar with a    *)
(* lunch break.                                                            *)
(*                                                                         *)
(* Dates are day numbers since 1970-01-01 (a pandas Timestamp at midnight  *)
(* UTC).  Instants are whole minutes since the epoch: every instant the    *)
(* program handles is a whole minute, so one unit of the model stands for  *)
(* NANOS_IN_MINUTE nanoseconds of the program.                             *)
(*                                                                         *)
(* The default range of the program, 1990-12-19 .. today + 365 days, is    *)
(* scaled down to DefaultSpan days ending at end_default; the behaviour    *)
(* of the constructor depends on the default range only through the list   *)
(* of its sessions.                                                        *)
(***************************************************************************)
EXTENDS Integers, Sequences, FiniteSets

VARIABLES
    pc,                  \* "new", "constructed" or "failed" (__init__ raised)
    holidays,            \* the dates get_cached() returns
    start, end,          \* the arguments of __init__
    all_days,            \* _all_days, the index of self.schedule
    opens, closes,       \* self._opens, self._closes
    lunch_break_starts,  \* self._lunch_break_starts
    lunch_break_ends,    \* self._lunch_break_ends
    schedule,            \* self.schedule, one record per row
    mps_cached,          \* the lazyval _minutes_per_session has been computed
    minutes_per_session, \* its value
    call,                \* all_minutes: "idle", "filling", "returned", "raised"
    num_minutes,         \* local num_minutes
    all_minutes,         \* local buffer all_minutes (np.empty)
    writes,              \* how often each position of the buffer was assigned
    idx,                 \* local idx
    day_idx,             \* number of loop iterations completed
    slices,              \* the slices assigned so far, one record per iteration
    result               \* the DatetimeIndex all_minutes returns

vars == <<pc, holidays, start, end, all_days, opens, closes,
          lunch_break_starts, lunch_break_ends, schedule, mps_cached,
          minutes_per_session, call, num_minutes, all_minutes, writes, idx,
          day_idx, slices, result>>

init_vars == <<start, end, all_days, opens, closes, lunch_break_starts,
               lunch_break_ends, schedule>>
mps_vars == <<mps_cached, minutes_per_session>>
call_vars == <<call, num_minutes, all_minutes, writes, idx, day_idx, slices,
               result>>

----------------------------------------------------------------------------
(* Bounds of the model *)

DefaultSpan == 9      \* days from start_default to end_default
Margin == 1           \* days before/after the default range offered as input
MaxHolidays == 1      \* size of the holiday list

----------------------------------------------------------------------------
(* Dates and times *)

MinutesPerDay == 24 * 60
OneMinute == 1        \* NANOS_IN_MINUTE, in the unit of the model
SATURDAY == 5
SUNDAY == 6

\* pd.Timestamp('yyyy-mm-dd'): the day number of a civil date
Timestamp(y, m, d) ==
    LET yy  == IF m <= 2 THEN y - 1 ELSE y
        era == yy \div 400
        yoe == yy - era * 400
        mp  == (m + 9) % 12
        doy == (153 * mp + 2) \div 5 + d - 1
        doe == yoe * 365 + yoe \div 4 - yoe \div 100 + doy
    IN  era * 146097 + doe - 719468

\* Timestamp.weekday(): Monday is 0; 1970-01-01 was a Thursday
weekday(d) == (d + 3) % 7

\* datetime.time(hour, minute)
time(h, m) == [hour |-> h, minute |-> m, second |-> 0]

lunch_break_start == time(11, 30)
lunch_break_end == time(13, 1)

\* 'today' of the run and the default range derived from it
end_base == Timestamp(2015, 3, 17)
end_default == end_base + 365
start_default == end_default - DefaultSpan

\* pytz.timezone("Asia/Shanghai"): UTC+8 over the whole modelled range
tz == [zone |-> "Asia/Shanghai", utcoffset |-> 8 * 60]
open_times == time(9, 31)
close_times == time(15, 0)

----------------------------------------------------------------------------
(* Inputs *)

Dates == ((start_default - Margin) .. (end_default + Margin))
             \cup {Timestamp(2016, 1, 1), Timestamp(2016, 1, 2)}

\* the dates a holiday list is drawn from: the first default day, weekdays
\* inside the default range, a Saturday inside it, the day after it, and a
\* Friday and a Saturday well before it
HolidayDates ==
    {Timestamp(2016, 3, 7), Timestamp(2016, 3, 9), Timestamp(2016, 3, 12),
     Timestamp(2016, 3, 14), Timestamp(2016, 3, 17),
     Timestamp(2016, 1, 1), Timestamp(2016, 1, 2)}

HolidayLists == {h \in SUBSET HolidayDates : Cardinality(h) <= MaxHolidays}

----------------------------------------------------------------------------
(* Library operations as the program uses them *)

\* adhoc_holidays: the cached list as UTC timestamps
adhoc_holidays(cached) == {t : t \in cached}

\* self.day, a CustomBusinessDay: Monday..Friday minus the ad-hoc holidays
is_on_offset_weekdays_only(d, hol) == weekday(d) \notin {SATURDAY, SUNDAY}
is_on_offset(d, hol) == weekday(d) \notin {SATURDAY, SUNDAY} /\ d \notin hol

RECURSIVE rollforward(_, _)
rollforward(d, hol) ==
    IF is_on_offset(d, hol) THEN d ELSE rollforward(d + 1, hol)

RECURSIVE date_range_from(_, _, _)
date_range_from(cur, e, hol) ==
    IF cur > e THEN <<>>
    ELSE <<cur>> \o date_range_from(rollforward(cur + 1, hol), e, hol)

\* date_range(start, end, freq=self.day, tz='UTC')
date_range(s, e, hol) ==
    IF s > e THEN <<>> ELSE date_range_from(rollforward(s, hol), e, hol)

\* tz_localize(tz).tz_convert('UTC') of a naive wall-clock instant
to_utc(naive, zone) == naive - zone.utcoffset

days_at_time(days, t, zone, day_offset) ==
    IF Len(days) = 0 THEN days
    ELSE [i \in 1..Len(days) |->
            to_utc(days[i] * MinutesPerDay
                     + (day_offset * MinutesPerDay + t.hour * 60 + t.minute),
                   zone)]

\* the local calendar date of a UTC instant
local_date(x, zone) == (x + zone.utcoffset) \div MinutesPerDay

\* the range TradingCalendar.__init__ is called with
calendar_range_passed_through(s, e) == [start |-> s, end |-> e]
calendar_range(s, e) == [start |-> start_default, end |-> end_default]

RECURSIVE SumSeq(_)
SumSeq(s) == IF Len(s) = 0 THEN 0 ELSE Head(s) + SumSeq(Tail(s))

\* the bounds of a[lo:hi] on an array of length n
clamp_index(i, n) ==
    IF i < 0 THEN (IF i + n < 0 THEN 0 ELSE i + n)
    ELSE (IF i > n THEN n ELSE i)

slice_indices(lo, hi, n) ==
    LET a == clamp_index(lo, n)
        b == clamp_index(hi, n)
    IN  [start |-> a, stop |-> IF b < a THEN a ELSE b]

slice_len(sl) == sl.stop - sl.start

\* np.arange(first, stop, step)
arange(first, stop, step) ==
    LET n == IF stop > first THEN (stop - first + step - 1) \div step ELSE 0
    IN  [k \in 1..n |-> first + (k - 1) * step]

\* a[sl] = vals is accepted when the shapes match or vals has one element
can_assign(sl, vals) == Len(vals) = slice_len(sl) \/ Len(vals) = 1

setslice(buf, sl, vals) ==
    [i \in 1..Len(buf) |->
        IF sl.start < i /\ i <= sl.stop
        THEN (IF Len(vals) = 1 THEN vals[1] ELSE vals[i - sl.start])
        ELSE buf[i]]

count_slice(cnt, sl) ==
    [i \in 1..Len(cnt) |->
        IF sl.start < i /\ i <= sl.stop THEN cnt[i] + 1 ELSE cnt[i]]

----------------------------------------------------------------------------
(* SHSZExchangeCalendar *)

Init ==
    /\ pc = "new"
    /\ holidays \in HolidayLists
    /\ start = start_default
    /\ end = end_default
    /\ all_days = <<>>
    /\ opens = <<>>
    /\ closes = <<>>
    /\ lunch_break_starts = <<>>
    /\ lunch_break_ends = <<>>
    /\ schedule = <<>>
    /\ mps_cached = FALSE
    /\ minutes_per_session = <<>>
    /\ call = "idle"
    /\ num_minutes = 0
    /\ all_minutes = <<>>
    /\ writes = <<>>
    /\ idx = 0
    /\ day_idx = 0
    /\ slices = <<>>
    /\ result = <<>>

\* __init__(start, end)
Construct(s, e) ==
    /\ pc = "new"
    /\ LET days == date_range(s, e, adhoc_holidays(holidays))
           lbs  == days_at_time(days, lunch_break_start, tz, 0)
           lbe  == days_at_time(days, lunch_break_end, tz, 0)
           rng  == calendar_range(s, e)
           base == date_range(rng.start, rng.end, adhoc_holidays(holidays))
           o    == days_at_time(base, open_times, tz, 0)
           c    == days_at_time(base, close_times, tz, 0)
           \* pd.DataFrame(index=, data=) takes the columns by position and
           \* raises ValueError when a column is not as long as the index
           fits == Len(o) = Len(days) /\ Len(c) = Len(days)
       IN  /\ start' = s
           /\ end' = e
           /\ IF fits
              THEN /\ pc' = "constructed"
                   /\ all_days' = days
                   /\ opens' = o
                   /\ closes' = c
                   /\ lunch_break_starts' = lbs
                   /\ lunch_break_ends' = lbe
                   /\ schedule' =
                        [i \in 1..Len(days) |->
                            [session |-> days[i],
                             market_open |-> o[i],
                             market_close |-> c[i],
                             lunch_break_start |-> lbs[i],
                             lunch_break_end |-> lbe[i]]]
              ELSE /\ pc' = "failed"
                   /\ UNCHANGED <<all_days, opens, closes, lunch_break_starts,
                                  lunch_break_ends, schedule>>
    /\ UNCHANGED <<holidays, mps_vars, call_vars>>

\* _minutes_per_session
minutes_per_session_plus_one(row) ==
    (row.lunch_break_start - row.market_open)
        + (row.market_close - row.lunch_break_end) + 1
minutes_per_session_of(row) ==
    (row.lunch_break_start - row.market_open)
        + (row.market_close - row.lunch_break_end) + 2

MinutesPerSession ==
    /\ pc = "constructed"
    /\ ~mps_cached
    /\ mps_cached' = TRUE
    /\ minutes_per_session' =
          [i \in 1..Len(schedule) |-> minutes_per_session_of(schedule[i])]
    /\ UNCHANGED <<pc, holidays, init_vars, call_vars>>

\* all_minutes: the locals computed before the loop
daily_before_lunch_sizes ==
    [i \in 1..Len(opens) |->
        (lunch_break_starts[i] - opens[i]) \div OneMinute + 1]
daily_after_lunch_sizes ==
    [i \in 1..Len(opens) |->
        (closes[i] - lunch_break_ends[i]) \div OneMinute + 1]
daily_sizes ==
    [i \in 1..Len(opens) |->
        daily_before_lunch_sizes[i] + daily_after_lunch_sizes[i]]

\* all_minutes, up to the allocation of the buffer.  np.empty leaves the
\* content of the buffer unspecified: 0 stands for a position not yet
\* assigned and writes counts the assignments of each position.
AllMinutesBegin ==
    /\ pc = "constructed"
    /\ call = "idle"
    /\ LET shapes == /\ Len(lunch_break_starts) = Len(opens)
                     /\ Len(lunch_break_ends) = Len(closes)
                     /\ Len(opens) = Len(closes)
           n == IF shapes THEN SumSeq(daily_sizes) ELSE 0
       IN  IF shapes /\ n >= 0
           THEN /\ call' = "filling"
                /\ num_minutes' = n
                /\ all_minutes' = [i \in 1..n |-> 0]
                /\ writes' = [i \in 1..n |-> 0]
                /\ idx' = 0
                /\ day_idx' = 0
                /\ slices' = <<>>
                /\ UNCHANGED result
           ELSE /\ call' = "raised"
                /\ UNCHANGED <<num_minutes, all_minutes, writes, idx, day_idx,
                               slices, result>>
    /\ UNCHANGED <<pc, holidays, init_vars, mps_vars>>

\* the two ranges of one iteration
before_lunch_range(i) ==
    arange(opens[i], lunch_break_starts[i] + OneMinute, OneMinute)
after_lunch_range_shifted(i) ==
    arange(lunch_break_ends[i] - OneMinute, closes[i], OneMinute)
after_lunch_range(i) ==
    arange(lunch_break_ends[i], closes[i] + OneMinute, OneMinute)

\* where the next iteration starts
next_idx_before_only(i, size_int) == i + daily_before_lunch_sizes[day_idx + 1]
next_idx(i, size_int) == i + size_int

\* all_minutes, one iteration of the loop
AllMinutesStep ==
    /\ call = "filling"
    /\ day_idx < Len(daily_sizes)
    /\ LET i == day_idx + 1
           size_int == daily_sizes[i]
           before_lunch_size_int == daily_before_lunch_sizes[i]
           n == Len(all_minutes)
           sl1 == slice_indices(idx, idx + before_lunch_size_int, n)
           sl2 == slice_indices(idx + before_lunch_size_int, idx + size_int, n)
           r1 == before_lunch_range(i)
           r2 == after_lunch_range(i)
           buf1 == setslice(all_minutes, sl1, r1)
           cnt1 == count_slice(writes, sl1)
       IN  IF ~can_assign(sl1, r1)
           THEN /\ call' = "raised"
                /\ UNCHANGED <<num_minutes, all_minutes, writes, idx, day_idx,
                               slices, result>>
           ELSE IF ~can_assign(sl2, r2)
           THEN /\ call' = "raised"
                /\ all_minutes' = buf1
                /\ writes' = cnt1
                /\ UNCHANGED <<num_minutes, idx, day_idx, slices, result>>
           ELSE /\ all_minutes' = setslice(buf1, sl2, r2)
                /\ writes' = count_slice(cnt1, sl2)
                /\ slices' = Append(slices,
                                [at |-> idx, before |-> sl1, after |-> sl2,
                                 n_before |-> Len(r1), n_after |-> Len(r2)])
                /\ idx' = next_idx(idx, size_int)
                /\ day_idx' = day_idx + 1
                /\ UNCHANGED <<call, num_minutes, result>>
    /\ UNCHANGED <<pc, holidays, init_vars, mps_vars>>

\* all_minutes, the return after the loop
AllMinutesReturn ==
    /\ call = "filling"
    /\ day_idx = Len(daily_sizes)
    /\ call' = "returned"
    /\ result' = all_minutes
    /\ UNCHANGED <<pc, holidays, init_vars, mps_vars, num_minutes, all_minutes,
                   writes, idx, day_idx, slices>>

Next ==
    \/ \E s \in Dates, e \in Dates : Construct(s, e)
    \/ MinutesPerSession
    \/ AllMinutesBegin
    \/ AllMinutesStep
    \/ AllMinutesReturn

Spec == Init /\ [][Next]_vars

----------------------------------------------------------------------------
(* Vocabulary of the properties *)

D20160314 == Timestamp(2016, 3, 14)
D20160102 == Timestamp(2016, 1, 2)

Rows == 1..Len(schedule)
Sessions == [i \in Rows |-> schedule[i].session]
SeqRange(s) == {s[i] : i \in 1..Len(s)}
StrictlyAscending(s) == \A i \in 1..(Len(s) - 1) : s[i] < s[i + 1]
IsWeekend(d) == weekday(d) \in {SATURDAY, SUNDAY}
ExpectedSessions == {d \in start..end : ~IsWeekend(d) /\ d \notin holidays}

\* minutes of one schedule row, both endpoints of both windows counted
RowMinutes(row) ==
    ((row.lunch_break_start - row.market_open) + 1)
        + ((row.market_close - row.lunch_break_end) + 1)
RowWindow(row) ==
    (row.market_open .. row.lunch_break_start)
        \cup (row.lunch_break_end .. row.market_close)
AllWindows == UNION {RowWindow(schedule[i]) : i \in Rows}

----------------------------------------------------------------------------
(* C1: the sessions of a constructed calendar are strictly ascending and   *)
(* are exactly the dates of [start, end] that are neither Saturday/Sunday  *)
(* nor holidays; no weekend date is a session, whatever the holiday list.  *)
C1_SessionsExact ==
    pc = "constructed" =>
        /\ StrictlyAscending(Sessions)
        /\ SeqRange(Sessions) = ExpectedSessions
        /\ \A i \in Rows : ~IsWeekend(Sessions[i])
        /\ D20160102 \notin SeqRange(Sessions)

C1_Witness ==
    /\ pc = "constructed"
    /\ Len(schedule) >= 2
    /\ \E d \in start..end : IsWeekend(d)
    /\ \E d \in holidays : d \in start..end /\ ~IsWeekend(d)

(* C2: in every schedule row of a constructed calendar                     *)
(* open < breakStart < breakEnd < close.                                   *)
C2_BoundariesOrdered ==
    pc = "constructed" =>
        \A i \in Rows :
            /\ schedule[i].market_open < schedule[i].lunch_break_start
            /\ schedule[i].lunch_break_start < schedule[i].lunch_break_end
            /\ schedule[i].lunch_break_end < schedule[i].market_close

(* C3: the sequence all_minutes returns is strictly ascending (hence       *)
(* duplicate-free) and as long as the sum over the sessions of             *)
(* (breakStart - open + 1) + (close - breakEnd + 1).                       *)
C3_MinutesAscendingAndCounted ==
    call = "returned" =>
        /\ StrictlyAscending(result)
        /\ Len(result) = SumSeq([i \in Rows |-> RowMinutes(schedule[i])])

C3_Witness ==
    /\ call = "returned"
    /\ Len(schedule) >= 2
    /\ Len(result) >= 480

(* C4: the instants all_minutes returns are exactly the minutes of         *)
(* [open, breakStart] and [breakEnd, close] of the sessions; each lies in  *)
(* the trading window of exactly one session and none lies strictly        *)
(* inside a break or outside every [open, close].                          *)
C4_MinutesAreTheWindows ==
    call = "returned" =>
        /\ SeqRange(result) = AllWindows
        /\ \A k \in 1..Len(result) :
              /\ Cardinality({i \in Rows :
                     /\ schedule[i].market_open <= result[k]
                     /\ result[k] <= schedule[i].market_close}) = 1
              /\ \A i \in Rows :
                     ~(/\ schedule[i].lunch_break_start < result[k]
                       /\ result[k] < schedule[i].lunch_break_end)

C4_Witness ==
    /\ call = "returned"
    /\ Len(schedule) >= 2
    /\ \E k \in 1..Len(result) : result[k] = schedule[2].lunch_break_end

(* C5: the row of session 2016-03-14 has the boundaries 01:31, 03:30,      *)
(* 05:01 and 07:00 UTC of that date, 120 minutes before the break, 120     *)
(* after it and 240 in total.                                              *)
C5_Session20160314 ==
    pc = "constructed" =>
        \A i \in Rows :
            schedule[i].session = D20160314 =>
                /\ schedule[i].market_open
                     = D20160314 * MinutesPerDay + (1 * 60 + 31)
                /\ schedule[i].lunch_break_start
                     = D20160314 * MinutesPerDay + (3 * 60 + 30)
                /\ schedule[i].lunch_break_end
                     = D20160314 * MinutesPerDay + (5 * 60 + 1)
                /\ schedule[i].market_close
                     = D20160314 * MinutesPerDay + (7 * 60 + 0)
                /\ daily_before_lunch_sizes[i] = 120
                /\ daily_after_lunch_sizes[i] = 120
                /\ daily_sizes[i] = 240

(* C6: constructing with start = end, that date a holiday, completes       *)
(* without error with no session, an empty schedule and empty all_minutes. *)
C6_SingleHolidayIsEmpty ==
    (pc # "new" /\ start = end /\ start \in holidays) =>
        /\ pc = "constructed"
        /\ Len(schedule) = 0
        /\ call \in {"idle", "filling", "returned"}
        /\ (call = "returned" => result = <<>>)

(* C7: constructing with start > end fails at construction: no schedule    *)
(* and no minute grid is produced.                                         *)
C7_ReversedRangeFails ==
    (pc # "new" /\ start > end) =>
        /\ pc = "failed"
        /\ schedule = <<>>
        /\ call = "idle"
        /\ result = <<>>

C7_Witness ==
    /\ pc = "failed"
    /\ start > end

(* C8: for every start and end, the schedule has one row per trading day   *)
(* of [start, end] and the four boundaries of a row fall on the local      *)
(* date of the row's trading day.                                          *)
C8_RowsOnTheirOwnDay ==
    pc = "constructed" =>
        /\ Len(schedule) = Cardinality(ExpectedSessions)
        /\ \A i \in Rows :
              /\ local_date(schedule[i].market_open, tz) = schedule[i].session
              /\ local_date(schedule[i].lunch_break_start, tz)
                    = schedule[i].session
              /\ local_date(schedule[i].lunch_break_end, tz)
                    = schedule[i].session
              /\ local_date(schedule[i].market_close, tz) = schedule[i].session

(* C9: during the fill pass idx is the sum of the sizes of the earlier     *)
(* sessions at the start of each iteration, the two slices of an iteration *)
(* are adjacent and as long as the two generated ranges, no position of    *)
(* the buffer is written twice, and when the loop ends every position has  *)
(* been written and idx equals num_minutes.                                *)
C9_FillPass ==
    call \in {"filling", "returned"} =>
        /\ idx = SumSeq(SubSeq(daily_sizes, 1, day_idx))
        /\ \A k \in 1..Len(slices) :
              /\ slices[k].at = SumSeq(SubSeq(daily_sizes, 1, k - 1))
              /\ slices[k].before.start = slices[k].at
              /\ slices[k].before.stop = slices[k].after.start
              /\ slice_len(slices[k].before) = slices[k].n_before
              /\ slice_len(slices[k].after) = slices[k].n_after
        /\ \A p \in 1..Len(writes) : writes[p] <= 1
        /\ day_idx = Len(daily_sizes) =>
              /\ idx = num_minutes
              /\ \A p \in 1..Len(writes) : writes[p] = 1

(* C10: for every session _minutes_per_session equals the before-lunch     *)
(* size plus the after-lunch size of all_minutes, and the number of        *)
(* minutes a returned all_minutes holds for that session.                  *)
C10_MinutesPerSessionAgrees ==
    mps_cached =>
        /\ Len(minutes_per_session) = Len(daily_sizes)
        /\ \A i \in 1..Len(minutes_per_session) :
              /\ minutes_per_session[i]
                    = daily_before_lunch_sizes[i] + daily_after_lunch_sizes[i]
              /\ call = "returned" =>
                    minutes_per_session[i]
                        = slices[i].n_before + slices[i].n_after

C10_Witness ==
    /\ mps_cached
    /\ call = "returned"
    /\ Len(minutes_per_session) >= 2

====
